---- MODULE Spec2Model ----
\* Model of SparkJavaJobAnalyzerExecutor.py: the pushdown decision and
\* deployment pipeline (main), the policy reconciler (update_filter_params)
\* and the credential provider (get_or_update_token).
\*
\* Python strings are modelled as sequences of atoms.  An atom is a single
\* character (";", ".", "/", ",", "\n", " ") or an indivisible run of word
\* characters ("package", "Foo", "a", "x").
EXTENDS Integers, Sequences, FiniteSets, TLC

\* ---------------------------------------------------------------- bounds
MaxSrcLen == 2
MaxPolicies == 2
MaxLambdas == 1
MaxCalls == 12
MaxParamLambdas == 4
MaxPathLen == 3

\* ------------------------------------------------------ program constants
None == "None"
LAMBDA_PUSHDOWN_FILTER == "lambdapushdown-1.0.jar"
HarnessClass == "SparkJobMigratory"

\* ------------------------------------------------------- generic helpers
BoundedSeq(S, n) == UNION {[1..k -> S] : k \in 0..n}

Min(a, b) == IF a < b THEN a ELSE b

Max(a, b) == IF a > b THEN a ELSE b

Last(s) == s[Len(s)]

\* Python slice s[a:b]; negative indices count from the end.
PySlice(s, a, b) ==
    LET n  == Len(s)
        lo == IF a < 0 THEN Max(n + a, 0) ELSE Min(a, n)
        hi == IF b < 0 THEN Max(n + b, 0) ELSE Min(b, n)
    IN  IF hi <= lo THEN <<>> ELSE SubSeq(s, lo + 1, hi)

\* Python slice s[a:]
PySliceFrom(s, a) == PySlice(s, a, Len(s))

\* TRUE iff old occurs in s at (1-based) position i.
StartsAt(s, old, i) ==
    /\ i + Len(old) - 1 <= Len(s)
    /\ \A k \in 1..Len(old) : s[i + k - 1] = old[k]

\* Python "sub in s".
Contains(s, sub) == \E i \in 1..(Len(s) + 1) : StartsAt(s, sub, i)

\* Python s.rfind(ch) for a one-character needle: 0-based index or -1.
RFind(s, ch) ==
    IF \E i \in 1..Len(s) : s[i] = ch
    THEN (CHOOSE i \in 1..Len(s) : s[i] = ch /\ \A j \in (i+1)..Len(s) : s[j] # ch) - 1
    ELSE -1

RECURSIVE ReplaceFrom(_, _, _, _)
ReplaceFrom(s, old, new, i) ==
    IF i > Len(s) THEN <<>>
    ELSE IF StartsAt(s, old, i) THEN new \o ReplaceFrom(s, old, new, i + Len(old))
    ELSE <<s[i]>> \o ReplaceFrom(s, old, new, i + 1)

RECURSIVE Interleave(_, _, _)
Interleave(s, new, i) ==
    IF i > Len(s) THEN new ELSE new \o <<s[i]>> \o Interleave(s, new, i + 1)

\* Python s.replace(old, new): every non-overlapping occurrence, left to right.
StrReplace(s, old, new) ==
    IF old = <<>> THEN Interleave(s, new, 1) ELSE ReplaceFrom(s, old, new, 1)


\* ------------------------------------------------------------ input sets
Tokens == {"tokA", "tokB", "tokC"}

\* argv[3]
PushdownArgs == {"True", "False", "true"}

\* argv[2]
JobPaths == {<<"/", "j", "/", "Foo", ".", "java">>}

\* Container identifiers and the target ids of the controller's policies.
Containers == {<<"c">>, <<"d">>}

TargetIds == {<<"t", "c">>, <<"t", "d">>}

FilterNames == {LAMBDA_PUSHDOWN_FILTER, "other-1.0.jar"}

Policies == [id : {"7"}, target_id : TargetIds, filter_name : FilterNames]

PolicyLists == BoundedSeq(Policies, MaxPolicies)

LambdaBodies == {"x"}

LambdaLists == BoundedSeq(LambdaBodies, MaxLambdas)

\* The iteration orders of a dict whose keys are a subset of Containers.
KeyOrders == {o \in BoundedSeq(Containers, Cardinality(Containers)) :
                 \A i, j \in 1..Len(o) : i # j => o[i] # o[j]}

Range(s) == {s[i] : i \in 1..Len(s)}

\* lambdasToMigrate: keys in iteration order, and the list stored per key.
Mappings == UNION {[keys : {o}, get : [Range(o) -> LambdaLists]] : o \in KeyOrders}

EmptyMapping == [keys |-> <<>>, get |-> <<>>]

\* Job texts the analyzer may put into its decomposition.
JobCodes == {<<"package", " ", "a", ";", "Foo">>,
             <<"package", ";", "Foo", "x">>,
             <<"Foo">>}

\* Contents of the job file on disk.
SrcAtoms == {"package", ";", "\n", "Foo"}

FileContents == BoundedSeq(SrcAtoms, MaxSrcLen)

Stages == <<"write", "compile", "package", "publish", "submit">>

ProcStages == {"compile", "package", "publish", "submit"}

\* ----------------------------------------------------------------- state
VARIABLES
    pc,               \* position of main
    upc,              \* position inside update_filter_params
    pushdown,         \* argv[3]
    spark_job_path,   \* argv[2]
    EXECUTOR_LOCATION, \* configured deployment path (module-level setting)
    analyzerStarted,  \* the analyzer subprocess was launched
    jsonObject,       \* the decomposition returned by executeJavaAnalyzer
    lambdasToMigrate, \* parameter of update_filter_params
    valid_token,      \* module-level token cache
    serviceToken,     \* the token the identity service hands out now
    authCount,        \* keystone_client.Client constructions
    returned,         \* values returned by get_or_update_token, in order
    requests,         \* HTTP requests issued, in order
    json_data,        \* the fetched policy list
    idx,              \* position of the container loop
    status_code,      \* local of update_filter_params
    rc,               \* value returned by update_filter_params
    fileOnDisk,       \* what myfile.read() returned
    jobToCompile,     \* local of main
    jobFile,          \* what was written to SparkJobMigratory.java
    started,          \* pipeline stages started, in order
    proc,             \* state of each launched subprocess
    cmds,             \* the command line each subprocess was launched with
    error,            \* the unhandled exception that ended the run
    paramsIn,         \* a container's lambda list handed to the encoder
    paramsOut         \* the encoded params string

vars == <<pc, upc, pushdown, spark_job_path, EXECUTOR_LOCATION, analyzerStarted,
          jsonObject,
          lambdasToMigrate, valid_token, serviceToken, authCount, returned,
          requests, json_data, idx, status_code, rc, fileOnDisk, jobToCompile,
          jobFile, started, proc, cmds, error, paramsIn, paramsOut>>

tokenVars == <<valid_token, authCount, returned>>

frameVars == <<lambdasToMigrate, json_data, idx, status_code>>

buildVars == <<jobFile, started, proc, cmds>>

encVars == <<paramsIn, paramsOut>>

inputVars == <<pushdown, spark_job_path, EXECUTOR_LOCATION, serviceToken, fileOnDisk>>

\* -------------------------------------------------- configuration values
URL_CRYSTAL_API == <<"http://IP:9000/">>

\* EXECUTOR_LOCATION as the file sets it.
DefaultExecutorLocation == <<>>

HttpStatuses == {"200", "500"}

\* ------------------------------------------------- update_filter_params
\* The value of `policy` once the scan `for policy in json_data` has ended:
\* the body of that loop is only a string literal, so the name is left bound
\* to the last element of the list.
PolicyAfterScan(data) == Last(data)

\* The test of line 77, evaluated once per container, after the scan.
IsPushdownPolicyFor(policy, container) ==
    /\ policy.filter_name = LAMBDA_PUSHDOWN_FILTER
    /\ Contains(policy.target_id, container)

\* policy['target_id'] + ':' + policy['id']
PolicyPath(policy) == policy.target_id \o <<":", policy.id>>

\* policy_id while it is None; str(None) is what would reach the URL.
NoPolicyId == <<None>>

\* Mutant: a policy that was not found is updated all the same.
LoopOutcome_NoMissingCheck(found, policy_id) ==
    IF found THEN "break" ELSE "put"

\* What one pass of the container loop does after the test of line 77:
\* the matching branch ends with `break`, which leaves the container loop.
LoopOutcome(found, policy_id) ==
    IF found THEN "break"
    ELSE IF policy_id = NoPolicyId THEN "return None"
    ELSE "put"

RECURSIVE LambdasJoined(_, _)
\* The loop of lines 93-95: every entry is followed by a comma.
LambdasJoined(lambdas, index) ==
    IF index >= Len(lambdas) THEN <<>>
    ELSE <<ToString(index), "-lambda=", lambdas[index + 1], ",">>
             \o LambdasJoined(lambdas, index + 1)

\* Mutant: the trailing comma is not cut off.
ParamsString_Untrimmed(lambdas) == LambdasJoined(lambdas, 0)

\* lambdas_as_string[:-1], the params value of the PUT body.
ParamsString(lambdas) == PySlice(LambdasJoined(lambdas, 0), 0, -1)

GetRequest == [method    |-> "GET",
               url       |-> URL_CRYSTAL_API \o <<"controller/static_policy/">>,
               container |-> <<>>,
               params    |-> <<>>,
               status    |-> None]

\* Lines 85-97; `container` records the container the request is made for and
\* `status` the status of the response, once it is there.
PutRequest(policy_id, container, lambdas) ==
    [method    |-> "PUT",
     url       |-> URL_CRYSTAL_API \o <<"controller/static_policy/">> \o policy_id,
     container |-> container,
     params    |-> ParamsString(lambdas),
     status    |-> None]

\* An unhandled exception ends the run.
Raise(exc) ==
    /\ pc' = "crashed"
    /\ error' = exc

\* Mutant: every call authenticates again.
get_or_update_token_Uncached(authOk) ==
    /\ authCount' = authCount + 1
    /\ IF authOk
       THEN /\ valid_token' = serviceToken
            /\ returned' = Append(returned, serviceToken)
            /\ UNCHANGED <<pc, error>>
       ELSE /\ Raise("AttributeError: keystone.auth_token")
            /\ UNCHANGED <<valid_token, returned>>

\* Mutant: a failed authentication is swallowed and None is handed out.
get_or_update_token_IgnoresFailure(authOk) ==
    IF valid_token = None
    THEN /\ authCount' = authCount + 1
         /\ IF authOk
            THEN /\ valid_token' = serviceToken
                 /\ returned' = Append(returned, serviceToken)
                 /\ UNCHANGED <<pc, error>>
            ELSE /\ returned' = Append(returned, None)
                 /\ UNCHANGED <<valid_token, pc, error>>
    ELSE /\ returned' = Append(returned, valid_token)
         /\ UNCHANGED <<valid_token, authCount, pc, error>>

\* get_or_update_token: authenticate only while the cache is empty.  When the
\* keystone client cannot be built get_keystone_admin_auth returns None and
\* reading keystone.auth_token raises.
get_or_update_token(authOk) ==
    IF valid_token = None
    THEN /\ authCount' = authCount + 1
         /\ IF authOk
            THEN /\ valid_token' = serviceToken
                 /\ returned' = Append(returned, serviceToken)
                 /\ UNCHANGED <<pc, error>>
            ELSE /\ Raise("AttributeError: keystone.auth_token")
                 /\ UNCHANGED <<valid_token, returned>>
    ELSE /\ returned' = Append(returned, valid_token)
         /\ UNCHANGED <<valid_token, authCount, pc, error>>

\* Line 54.
AcquireToken ==
    /\ pc = "call" /\ upc = "token"
    /\ \E authOk \in BOOLEAN : get_or_update_token(authOk)
    /\ upc' = IF error' = None THEN "get" ELSE upc
    /\ UNCHANGED <<inputVars, analyzerStarted, jsonObject, frameVars, requests,
                   rc, jobToCompile, buildVars, encVars>>

\* Mutant: the list may be fetched a second time.
FetchPolicies_Refetches ==
    /\ pc = "call" /\ upc = "get"
    /\ requests' = Append(requests, GetRequest)
    /\ \/ /\ \E data \in PolicyLists : json_data' = data
          /\ idx' = 1
          /\ status_code' = None
          /\ upc' = IF requests = <<>> THEN "get" ELSE "loop"
          /\ UNCHANGED <<pc, error>>
       \/ /\ Raise("ValueError: json.loads")
          /\ UNCHANGED <<json_data, idx, status_code, upc>>
    /\ UNCHANGED <<inputVars, analyzerStarted, jsonObject, lambdasToMigrate,
                   tokenVars, rc, jobToCompile, buildVars, encVars>>

\* Lines 63-69: one GET of the policy list; the answer is parsed as JSON.
FetchPolicies ==
    /\ pc = "call" /\ upc = "get"
    /\ requests' = Append(requests, GetRequest)
    /\ \/ /\ \E data \in PolicyLists : json_data' = data
          /\ idx' = 1
          /\ status_code' = None
          /\ upc' = "loop"
          /\ UNCHANGED <<pc, error>>
       \/ /\ Raise("ValueError: json.loads")
          /\ UNCHANGED <<json_data, idx, status_code, upc>>
    /\ UNCHANGED <<inputVars, analyzerStarted, jsonObject, lambdasToMigrate,
                   tokenVars, rc, jobToCompile, buildVars, encVars>>

\* Lines 72-98: one pass of `for container in lambdasToMigrate`.
ContainerPass ==
    /\ pc = "call" /\ upc = "loop"
    /\ idx <= Len(lambdasToMigrate.keys)
    /\ LET container == lambdasToMigrate.keys[idx] IN
       IF json_data = <<>>
       THEN /\ Raise("UnboundLocalError: policy")
            /\ UNCHANGED <<upc, idx, status_code, rc, requests>>
       ELSE LET policy    == PolicyAfterScan(json_data)
                found     == IsPushdownPolicyFor(policy, container)
                policy_id == IF found THEN PolicyPath(policy) ELSE NoPolicyId
                outcome   == LoopOutcome(found, policy_id)
            IN  IF outcome = "break"
                THEN /\ upc' = "exit"
                     /\ UNCHANGED <<pc, error, idx, status_code, rc, requests>>
                ELSE IF outcome = "return None"
                THEN /\ rc' = None
                     /\ pc' = "returned"
                     /\ upc' = "line83"
                     /\ UNCHANGED <<error, idx, status_code, requests>>
                ELSE \E st \in HttpStatuses :
                     /\ requests' = Append(requests,
                            [PutRequest(policy_id, container,
                                        lambdasToMigrate.get[container])
                                EXCEPT !.status = st])
                     /\ status_code' = st
                     /\ idx' = idx + 1
                     /\ UNCHANGED <<pc, upc, error, rc>>
    /\ UNCHANGED <<inputVars, analyzerStarted, jsonObject, lambdasToMigrate,
                   json_data, tokenVars, jobToCompile, buildVars, encVars>>

\* Line 100: the loop is exhausted or was left by `break`.
ReturnStatusCode ==
    /\ pc = "call"
    /\ \/ upc = "exit"
       \/ upc = "loop" /\ idx > Len(lambdasToMigrate.keys)
    /\ rc' = status_code
    /\ pc' = "returned"
    /\ upc' = "line100"
    /\ UNCHANGED <<inputVars, analyzerStarted, jsonObject, frameVars, tokenVars,
                   requests, jobToCompile, buildVars, error, encVars>>

\* --------------------------------------------------------------- main
Decompositions == [lambdas : Mappings, original : JobCodes, pushdown : JobCodes]

\* jsonObject while no decomposition exists.
NoDecomposition == [lambdas |-> EmptyMapping, original |-> <<>>, pushdown |-> <<>>]

\* jobFile before SparkJobMigratory.java is written.
NoFile == [path |-> <<>>, content |-> <<>>]

\* paramsOut before a request is built.
NoRequest == [method |-> None, url |-> <<>>, container |-> <<>>, params |-> <<>>,
              status |-> None]

\* Line 142: the text between the last '/' and the last '.' of the path.
JobName(path) == PySlice(path, RFind(path, "/") + 1, RFind(path, "."))

\* Mutant: the file is taken as read, newlines included.
SelectedSource_Verbatim(arg, decomposition, content) ==
    IF arg = "True" THEN decomposition.pushdown ELSE content

\* Mutant: line 165 is missing, the assignment of line 159 stands.
SelectedSource_Original(arg, decomposition, content) ==
    IF arg = "True" THEN decomposition.original
    ELSE StrReplace(content, <<"\n">>, <<>>)

\* Lines 165 and 170-171: the text chosen for the build.
SelectedSource(arg, decomposition, content) ==
    IF arg = "True" THEN decomposition.pushdown
    ELSE StrReplace(content, <<"\n">>, <<>>)

IsSpace(a) == a \in {" ", "\n", "\t"}

IsWord(a) == a \notin {" ", "\n", "\t", ".", ";", "/", ",", ":"}

RECURSIVE MiddleOK(_, _, _, _)
\* s[i..] matches the rest of \s*(\w\.?)*\s* ; phase 0 is the leading
\* whitespace, 1 the dotted name, 2 the trailing whitespace.
MiddleOK(s, i, phase, afterWord) ==
    IF i > Len(s) THEN TRUE
    ELSE IF IsSpace(s[i])
         THEN MiddleOK(s, i + 1, IF phase = 0 THEN 0 ELSE 2, FALSE)
    ELSE IF IsWord(s[i])
         THEN phase # 2 /\ MiddleOK(s, i + 1, 1, TRUE)
    ELSE IF s[i] = "."
         THEN phase = 1 /\ afterWord /\ MiddleOK(s, i + 1, 1, FALSE)
    ELSE FALSE

\* The end of the match of 'package\s*(\w\.?)*\s*;' that starts at i, or 0.
MatchEnd(s, i) ==
    IF s[i] = "package" /\ \E j \in (i + 1)..Len(s) : s[j] = ";"
    THEN LET j == CHOOSE j \in (i + 1)..Len(s) :
                      s[j] = ";" /\ \A k \in (i + 1)..(j - 1) : s[k] # ";"
         IN  IF MiddleOK(SubSeq(s, i + 1, j - 1), 1, 0, FALSE) THEN j ELSE 0
    ELSE 0

\* m while re.search found nothing (None); a match is never empty.
NoMatch == <<>>

\* re.search: the leftmost match as m.group(0), or NoMatch.
PackageSearch(s) ==
    IF \E i \in 1..Len(s) : MatchEnd(s, i) > 0
    THEN LET i == CHOOSE i \in 1..Len(s) :
                      MatchEnd(s, i) > 0 /\ \A k \in 1..(i - 1) : MatchEnd(s, k) = 0
         IN  SubSeq(s, i, MatchEnd(s, i))
    ELSE NoMatch

\* 'package ' + EXECUTOR_LOCATION.replace('/','.')[1:-1] + ';'
DeployPackageDecl ==
    <<"package", " ">>
        \o PySlice(StrReplace(EXECUTOR_LOCATION, <<"/">>, <<".">>), 1, -1)
        \o <<";">>

\* Lines 175-177: the two substitutions.
RewriteSource(text, group0, name) ==
    StrReplace(StrReplace(text, group0, DeployPackageDecl), name, <<HarnessClass>>)

\* Mutant: the analyzer also runs for 'true'.
RunAnalyzer_AnyCase ==
    /\ pc = "start"
    /\ pushdown \in {"True", "true"}
    /\ analyzerStarted' = TRUE
    /\ \/ \E d \in Decompositions :
             /\ jsonObject' = d
             /\ lambdasToMigrate' = d.lambdas
             /\ jobToCompile' = d.original
             /\ pc' = "call"
             /\ upc' = "token"
             /\ UNCHANGED error
       \/ /\ Raise("ValueError: json.load")
          /\ UNCHANGED <<jsonObject, lambdasToMigrate, jobToCompile, upc>>
    /\ UNCHANGED <<inputVars, tokenVars, requests, json_data, idx, status_code,
                   rc, buildVars, encVars>>

\* Lines 147-164 up to the call: the analyzer runs only when argv[3] is 'True'.
RunAnalyzer ==
    /\ pc = "start"
    /\ pushdown = "True"
    /\ analyzerStarted' = TRUE
    /\ \/ \E d \in Decompositions :
             /\ jsonObject' = d
             /\ lambdasToMigrate' = d.lambdas
             /\ jobToCompile' = d.original
             /\ pc' = "call"
             /\ upc' = "token"
             /\ UNCHANGED error
       \/ /\ Raise("ValueError: json.load")
          /\ UNCHANGED <<jsonObject, lambdasToMigrate, jobToCompile, upc>>
    /\ UNCHANGED <<inputVars, tokenVars, requests, json_data, idx, status_code,
                   rc, buildVars, encVars>>

\* Line 169: update_filter_params([]).
SkipAnalyzer ==
    /\ pc = "start"
    /\ pushdown # "True"
    /\ lambdasToMigrate' = EmptyMapping
    /\ pc' = "call"
    /\ upc' = "token"
    /\ UNCHANGED <<inputVars, analyzerStarted, jsonObject, tokenVars, requests,
                   json_data, idx, status_code, rc, jobToCompile, buildVars,
                   error, encVars>>

\* Lines 164-165 and 169-171 after the call: the return value is printed and
\* the source is chosen.  The frame of update_filter_params is gone; upc keeps
\* the line at which it returned.
SelectSource ==
    /\ pc = "returned"
    /\ \E content \in FileContents :
          /\ fileOnDisk' = IF pushdown = "True" THEN fileOnDisk ELSE content
          /\ jobToCompile' = SelectedSource(pushdown, jsonObject, content)
    /\ lambdasToMigrate' = EmptyMapping
    /\ json_data' = <<>>
    /\ idx' = 1
    /\ status_code' = None
    /\ pc' = "rewrite"
    /\ UNCHANGED <<pushdown, spark_job_path, EXECUTOR_LOCATION, serviceToken, upc,
                   analyzerStarted,
                   jsonObject, tokenVars, requests, rc, buildVars, error, encVars>>

\* Lines 174-177: m is None when the text has no package declaration.
Rewrite ==
    /\ pc = "rewrite"
    /\ LET group0 == PackageSearch(jobToCompile) IN
       IF group0 = NoMatch
       THEN /\ Raise("AttributeError: m.group")
            /\ UNCHANGED jobToCompile
       ELSE /\ jobToCompile' = RewriteSource(jobToCompile, group0, JobName(spark_job_path))
            /\ pc' = "write"
            /\ UNCHANGED error
    /\ UNCHANGED <<inputVars, upc, analyzerStarted, jsonObject, frameVars,
                   tokenVars, requests, rc, buildVars, encVars>>

\* Lines 179-182: print >> jobFile appends a newline.
WriteJobFile ==
    /\ pc = "write"
    /\ jobFile' = [path    |-> EXECUTOR_LOCATION \o <<"/", "SparkJobMigratory.java">>,
                   content |-> jobToCompile \o <<"\n">>]
    /\ started' = Append(started, "write")
    /\ pc' = "compile"
    /\ UNCHANGED <<inputVars, upc, analyzerStarted, jsonObject, frameVars,
                   tokenVars, requests, rc, jobToCompile, proc, cmds, error,
                   encVars>>

\* Mutant: the leading '.' is not sliced off.
MainClass_Unsliced ==
    StrReplace(EXECUTOR_LOCATION, <<"/">>, <<".">>) \o <<HarnessClass>>

\* EXECUTOR_LOCATION.replace('/','.')[1:] + 'SparkJobMigratory'
MainClass == PySliceFrom(StrReplace(EXECUTOR_LOCATION, <<"/">>, <<".">>), 1)
                 \o <<HarnessClass>>

\* cmds before a subprocess is launched.
NoCommand == [file |-> <<>>, class |-> <<>>, jar |-> <<>>]

\* The parts of the command lines built on lines 185-186, 193-195, 202 and
\* 210-216: the file worked on, the entry class, the jar named.
Command(stage) ==
    CASE stage = "compile" ->
           [file  |-> EXECUTOR_LOCATION \o <<"SparkJobMigratory.java">>,
            class |-> <<>>,
            jar   |-> <<>>]
      [] stage = "package" ->
           [file  |-> EXECUTOR_LOCATION \o <<"SparkJobMigratory.class">>,
            class |-> MainClass,
            jar   |-> EXECUTOR_LOCATION \o <<"SparkJobMigratory.jar">>]
      [] stage = "publish" ->
           [file  |-> EXECUTOR_LOCATION \o <<"SparkJobMigratory.jar">>,
            class |-> <<>>,
            jar   |-> <<"/", "SparkJobMigratory.jar">>]
      [] stage = "submit" ->
           [file  |-> <<>>,
            class |-> MainClass,
            jar   |-> <<"/", "SparkJobMigratory.jar">>]

\* subprocess.Popen(cmd, shell=True): the child is started and not waited for.
Popen(stage) ==
    /\ started' = Append(started, stage)
    /\ proc' = [proc EXCEPT ![stage] = "running"]
    /\ cmds' = [cmds EXCEPT ![stage] = Command(stage)]

\* What main does once the step at `here` is behind it.
PipelineStep(here, next) ==
    /\ pc = here
    /\ Popen(here)
    /\ pc' = next
    /\ UNCHANGED <<inputVars, upc, analyzerStarted, jsonObject, frameVars,
                   tokenVars, requests, rc, jobToCompile, jobFile, error, encVars>>

\* Mutant: packaging is skipped after the compilation.
StartCompilation_SkipsPackaging == PipelineStep("compile", "publish")

\* Lines 184-188.
StartCompilation == PipelineStep("compile", "package")

\* Mutant: packaging waits for the compiler to exit.
StartPackaging_Waits ==
    /\ proc["compile"] \in {"exit0", "exit1"}
    /\ PipelineStep("package", "publish")

\* Lines 191-197.
StartPackaging == PipelineStep("package", "publish")

\* Lines 200-205.
StoreJarInHdfs == PipelineStep("publish", "submit")

\* Lines 208-218.
StartExecution == PipelineStep("submit", "done")

\* A launched child ends with some exit status; main never reads it.
ProcessExits ==
    /\ \E stage \in ProcStages, code \in {"exit0", "exit1"} :
          /\ proc[stage] = "running"
          /\ proc' = [proc EXCEPT ![stage] = code]
    /\ UNCHANGED <<inputVars, pc, upc, analyzerStarted, jsonObject, frameVars,
                   tokenVars, requests, rc, jobToCompile, jobFile, started,
                   cmds, error, encVars>>

InitCommon ==
    /\ upc = "none"
    /\ analyzerStarted = FALSE
    /\ jsonObject = NoDecomposition
    /\ lambdasToMigrate = EmptyMapping
    /\ valid_token = None
    /\ serviceToken \in Tokens
    /\ authCount = 0
    /\ returned = <<>>
    /\ requests = <<>>
    /\ json_data = <<>>
    /\ idx = 1
    /\ status_code = None
    /\ rc = "not returned"
    /\ fileOnDisk = <<>>
    /\ jobFile = NoFile
    /\ started = <<>>
    /\ proc = [s \in ProcStages |-> "none"]
    /\ cmds = [s \in ProcStages |-> NoCommand]
    /\ error = None
    /\ paramsOut = NoRequest

Init ==
    /\ InitCommon
    /\ pc = "start"
    /\ pushdown \in PushdownArgs
    /\ spark_job_path \in JobPaths
    /\ EXECUTOR_LOCATION = DefaultExecutorLocation
    /\ jobToCompile = <<>>
    /\ paramsIn = <<>>

Next ==
    \/ RunAnalyzer
    \/ SkipAnalyzer
    \/ AcquireToken
    \/ FetchPolicies
    \/ ContainerPass
    \/ ReturnStatusCode
    \/ SelectSource
    \/ Rewrite
    \/ WriteJobFile
    \/ StartCompilation
    \/ StartPackaging
    \/ StoreJarInHdfs
    \/ StartExecution
    \/ ProcessExits

Spec == Init /\ [][Next]_vars

\* ------------------------------------ repeated calls of get_or_update_token
\* Any sequence of calls within one process, while the identity service
\* changes the token it would hand out.
CallGetOrUpdateToken ==
    /\ pc = "calls"
    /\ Len(returned) < MaxCalls
    /\ \E authOk \in BOOLEAN : get_or_update_token(authOk)
    /\ UNCHANGED <<inputVars, upc, analyzerStarted, jsonObject, frameVars,
                   requests, rc, jobToCompile, buildVars, encVars>>

IdentityServiceRotates ==
    /\ pc = "calls"
    /\ \E t \in Tokens \ {serviceToken} : serviceToken' = t
    /\ UNCHANGED <<pc, upc, pushdown, spark_job_path, EXECUTOR_LOCATION, fileOnDisk,
                   analyzerStarted,
                   jsonObject, frameVars, tokenVars, requests, rc, jobToCompile,
                   buildVars, error, encVars>>

InitToken ==
    /\ InitCommon
    /\ pc = "calls"
    /\ pushdown = "False"
    /\ spark_job_path \in JobPaths
    /\ EXECUTOR_LOCATION = DefaultExecutorLocation
    /\ jobToCompile = <<>>
    /\ paramsIn = <<>>

NextToken == CallGetOrUpdateToken \/ IdentityServiceRotates

SpecToken == InitToken /\ [][NextToken]_vars

\* ------------------------------------------- the params encoding on its own
ParamBodies == {"x", "y", "z"}

\* Lines 85-97 for one container whose policy was found.
BuildPutRequest ==
    /\ pc = "encode"
    /\ paramsOut = NoRequest
    /\ \E policy \in Policies, container \in Containers :
          paramsOut' = PutRequest(PolicyPath(policy), container, paramsIn)
    /\ UNCHANGED <<inputVars, pc, upc, analyzerStarted, jsonObject, frameVars,
                   tokenVars, requests, rc, jobToCompile, buildVars, error, paramsIn>>

InitParams ==
    /\ InitCommon
    /\ pc = "encode"
    /\ pushdown = "True"
    /\ spark_job_path \in JobPaths
    /\ EXECUTOR_LOCATION = DefaultExecutorLocation
    /\ jobToCompile = <<>>
    /\ paramsIn \in BoundedSeq(ParamBodies, MaxParamLambdas)

NextParams == BuildPutRequest

SpecParams == InitParams /\ [][NextParams]_vars

\* -------------------------------- the rewrite and the build on their own
\* Lines 174-218 of a run with pushdown disabled, for the deployment paths a
\* site may configure, several job files and several job names.
DeployPaths == BoundedSeq({"/", "a"}, MaxPathLen)

\* Contents of the job file (line 171).
BuildSources == {<<"package", " ", "a", ".", "b", ";", "\n", "class", " ", "Foo">>,
                 <<"package", " ", "a", ";", "Foo", ",", "package", "Name", ";">>,
                 <<"package", ";", "a", " ", "Foo">>,
                 <<"class", " ", "Foo">>}

\* argv[2]
BuildJobPaths == {<<"/", "j", "/", "Foo", ".", "java">>,
                  <<"/", "j", "/", "a", ".", "java">>,
                  <<"/", "j", "/", "SparkJobMigratory", ".", "java">>}

\* The state of main on line 174: update_filter_params([]) has returned from
\* line 100 after its GET and the file was read.
InitBuild ==
    /\ pc = "rewrite"
    /\ upc = "line100"
    /\ pushdown = "False"
    /\ spark_job_path \in BuildJobPaths
    /\ EXECUTOR_LOCATION \in DeployPaths
    /\ analyzerStarted = FALSE
    /\ jsonObject = NoDecomposition
    /\ lambdasToMigrate = EmptyMapping
    /\ serviceToken \in Tokens
    /\ valid_token = serviceToken
    /\ authCount = 1
    /\ returned = <<serviceToken>>
    /\ requests = <<GetRequest>>
    /\ json_data = <<>>
    /\ idx = 1
    /\ status_code = None
    /\ rc = None
    /\ fileOnDisk \in BuildSources
    /\ jobToCompile = SelectedSource(pushdown, jsonObject, fileOnDisk)
    /\ jobFile = NoFile
    /\ started = <<>>
    /\ proc = [s \in ProcStages |-> "none"]
    /\ cmds = [s \in ProcStages |-> NoCommand]
    /\ error = None
    /\ paramsIn = <<>>
    /\ paramsOut = NoRequest

NextBuild ==
    \/ Rewrite
    \/ WriteJobFile
    \/ StartCompilation
    \/ StartPackaging
    \/ StoreJarInHdfs
    \/ StartExecution
    \/ ProcessExits

SpecBuild == InitBuild /\ [][NextBuild]_vars

\* ================================================================ claims
Puts == SelectSeq(requests, LAMBDA r : r.method = "PUT")

Gets == SelectSeq(requests, LAMBDA r : r.method = "GET")

Requested == Range(lambdasToMigrate.keys)

\* The fetched list holds a lambda-pushdown entry whose target id contains c.
HasPolicy(c) ==
    \E i \in 1..Len(json_data) : IsPushdownPolicyFor(json_data[i], c)

\* update_filter_params has ended, by a return or by an exception of the loop.
ReconcileEnded ==
    \/ pc = "returned"
    \/ pc = "crashed" /\ upc = "loop"

\* C1: whenever some requested container has no lambda-pushdown policy in the
\* fetched list, update_filter_params returns the PolicyMissing value (None)
\* and has issued no PUT at all.
C1_FailFastPolicyMissing ==
    (ReconcileEnded /\ \E c \in Requested : ~HasPolicy(c))
        => (pc = "returned" /\ rc = None /\ Puts = <<>>)

\* C2: when every container of a non-empty mapping has a matching entry in the
\* fetched list, exactly one PUT per container is issued, addressed to such an
\* entry's target_id:policy_id, and PolicyMissing is not reported.
C2_OnePutPerContainer ==
    (ReconcileEnded /\ Requested # {} /\ \A c \in Requested : HasPolicy(c))
        => /\ pc = "returned"
           /\ upc # "line83"
           /\ Len(Puts) = Len(lambdasToMigrate.keys)
           /\ \A k \in 1..Len(Puts) :
                 /\ Puts[k].container = lambdasToMigrate.keys[k]
                 /\ \E i \in 1..Len(json_data) :
                       /\ IsPushdownPolicyFor(json_data[i], Puts[k].container)
                       /\ Puts[k].url = GetRequest.url \o PolicyPath(json_data[i])

\* C3: every request is a GET of the list or a PUT; while the fetched list is
\* at hand, every PUT is for a requested container that has a lambda-pushdown
\* entry and targets that entry, so a container without one gets no PUT.
C3_PutOnlyForExistingPolicy ==
    /\ \A k \in 1..Len(requests) : requests[k].method \in {"GET", "PUT"}
    /\ pc \in {"call", "returned"} =>
          \A k \in 1..Len(Puts) :
             /\ Puts[k].container \in Requested
             /\ \E i \in 1..Len(json_data) :
                   /\ IsPushdownPolicyFor(json_data[i], Puts[k].container)
                   /\ Puts[k].url = GetRequest.url \o PolicyPath(json_data[i])

\* C3 witness: reconciliation has ended for a mapping with a container that
\* has no lambda-pushdown policy, after the list was fetched.
C3_Witness ==
    /\ pc = "returned"
    /\ Len(Gets) = 1
    /\ \E c \in Requested : ~HasPolicy(c)
    /\ \E c \in Requested : HasPolicy(c)

RECURSIVE ExpectedParams(_, _)
\* "0-lambda=b0,1-lambda=b1,...": entry i is preceded by a comma unless i = 0.
ExpectedParams(lambdas, n) ==
    IF n = 0 THEN <<>>
    ELSE ExpectedParams(lambdas, n - 1)
            \o (IF n = 1 THEN <<>> ELSE <<",">>)
            \o <<ToString(n - 1), "-lambda=", lambdas[n]>>

C5_EmptyMappingReportsSuccess ==
    (pc = "returned" /\ pushdown # "True")
        => /\ Len(returned) = 1
           /\ Len(Gets) = 1
           /\ Puts = <<>>
           /\ rc # None

\* C6: over any sequence of calls the identity service is authenticated
\* against at most once and every call returns the token of the first call.
C6_TokenCachedOnce ==
    /\ authCount <= 1
    /\ \A k \in 1..Len(returned) : returned[k] = returned[1]

\* C6 witness: a later call returned the cached token although the identity
\* service would by now hand out another one.
C6_Witness ==
    /\ Len(returned) >= 3
    /\ serviceToken # returned[1]
    /\ valid_token = returned[1]

\* C7: the stages start in the order write, compile, package, publish, submit,
\* each at most once, and a run that reaches the end has started all five.
C7_StagesInOrder ==
    /\ Len(started) <= Len(Stages)
    /\ started = SubSeq(Stages, 1, Len(started))
    /\ pc = "done" => started = Stages
    /\ \A s \in ProcStages : proc[s] # "none" <=> s \in Range(started)

\* C7 witness: the run has reached the end of the pipeline.
C7_Witness == pc = "done" /\ started = Stages

\* C8: once the process of a stage has exited non-zero no further stage is
\* started.
C8_NoStageAfterFailure ==
    [][(\E s \in ProcStages : proc[s] = "exit1") => started' = started]_vars

\* The file contents without their newline characters.
WithoutNewlines(text) == SelectSeq(text, LAMBDA a : a # "\n")

\* C9 as stated: with pushdown disabled the text selected for the build is
\* the file's contents, character for character.
C9_SelectedIsFileVerbatim ==
    (pc = "rewrite" /\ pushdown # "True") => jobToCompile = fileOnDisk

\* C9 amended: with pushdown disabled the text selected for the build is the
\* file's contents with every newline character removed, and no decomposition
\* exists.
C9_SelectedIsFileWithoutNewlines ==
    (pc = "rewrite" /\ pushdown # "True")
        => /\ jobToCompile = WithoutNewlines(fileOnDisk)
           /\ jsonObject = NoDecomposition
           /\ ~analyzerStarted

\* C9 witness: a file with a newline and other text was selected.
C9_Witness ==
    /\ pc = "rewrite"
    /\ pushdown # "True"
    /\ "\n" \in Range(fileOnDisk)
    /\ jobToCompile # <<>>

RECURSIVE CountPackageDecls(_, _)
\* The number of non-overlapping matches of 'package\s*(\w\.?)*\s*;' in s
\* from position i on, scanning from the left.
CountPackageDecls(s, i) ==
    IF i > Len(s) THEN 0
    ELSE IF MatchEnd(s, i) > 0
         THEN 1 + CountPackageDecls(s, MatchEnd(s, i) + 1)
         ELSE CountPackageDecls(s, i + 1)

\* C11: the text written for the build has exactly one package declaration,
\* the deployment package's, and no occurrence of the job class name that
\* argv[2] gives.
C11_OnePackageNoOldName ==
    jobFile # NoFile
        => /\ CountPackageDecls(jobFile.content, 1) = 1
           /\ Contains(jobFile.content, DeployPackageDecl)
           /\ ~Contains(jobFile.content, JobName(spark_job_path))

\* The job source has a declaration `package <dotted-name>;`: the keyword,
\* white space, a name of words separated by single dots, optional white
\* space, a semicolon.
DottedName(n) ==
    /\ n # <<>>
    /\ IsWord(n[1]) /\ IsWord(n[Len(n)])
    /\ \A k \in 1..Len(n) : IsWord(n[k]) \/ n[k] = "."
    /\ \A k \in 1..(Len(n) - 1) : ~(n[k] = "." /\ n[k + 1] = ".")

HasPackageDeclaration(s) ==
    \E i \in 1..Len(s), j \in 1..Len(s) :
       /\ s[i] = "package" /\ s[j] = ";" /\ i + 2 < j
       /\ IsSpace(s[i + 1])
       /\ \E a \in (i + 2)..(j - 1), b \in (i + 2)..(j - 1) :
             /\ a <= b
             /\ \A k \in (i + 1)..(a - 1) : IsSpace(s[k])
             /\ \A k \in (b + 1)..(j - 1) : IsSpace(s[k])
             /\ DottedName(SubSeq(s, a, b))

\* update_filter_params returned and main chose the text for the build.
SourceSelected ==
    /\ upc \in {"line83", "line100"}
    /\ pc \notin {"start", "call", "returned"}

\* C12: if the selected source has no `package <dotted-name>;` declaration the
\* run fails before the build: SparkJobMigratory.java is not written and none
\* of compile, package, publish, submit is started.
C12_NoPackageNoBuild ==
    (SourceSelected
       /\ ~HasPackageDeclaration(SelectedSource(pushdown, jsonObject, fileOnDisk)))
        => /\ pc \in {"rewrite", "crashed"}
           /\ jobFile = NoFile
           /\ started = <<>>

\* The one authentication of the run failed.
AuthFailed == authCount > 0 /\ valid_token = None

\* C13: when authentication fails the run ends there: no GET and no PUT of
\* policies, no source file written, no build, publish or submit process.
C13_AuthFailureStopsRun ==
    AuthFailed => /\ pc = "crashed"
                  /\ error = "AttributeError: keystone.auth_token"
                  /\ requests = <<>>
                  /\ jobFile = NoFile
                  /\ started = <<>>
                  /\ \A s \in ProcStages : proc[s] = "none"

\* C13 witness: the run has ended on the failed authentication.
C13_Witness ==
    /\ AuthFailed
    /\ pc = "crashed"
    /\ returned = <<>>

C15_AnalyzerOnlyWhenTrue ==
    /\ analyzerStarted => pushdown = "True"
    /\ pushdown # "True" =>
          /\ error # "ValueError: json.load"
          /\ jsonObject = NoDecomposition
          /\ lambdasToMigrate = EmptyMapping
          /\ pc # "start" => (authCount > 0 \/ pc = "call")
          /\ pc = "done" => (Len(Gets) = 1 /\ started = Stages)

\* C15 witness: a run with 'true' got through reconciliation and the build
\* without the analyzer.
C15_Witness ==
    /\ pushdown = "true"
    /\ ~analyzerStarted
    /\ Len(Gets) = 1
    /\ pc = "done"

\* C16: a stage is launched whatever the state of the process of the stage
\* before it: while that process is still running, the launch of the next
\* stage is possible.
C16_NoWaitBetweenStages ==
    /\ (pc = "package" /\ proc["compile"] = "running") => ENABLED StartPackaging
    /\ (pc = "publish" /\ proc["package"] = "running") => ENABLED StoreJarInHdfs
    /\ (pc = "submit" /\ proc["publish"] = "running") => ENABLED StartExecution

\* C16 witness: packaging was launched while the compiler is still running.
C16_Witness ==
    /\ proc["compile"] = "running"
    /\ proc["package"] = "running"

\* C17: the token is acquired before the first request, the first request is
\* the one GET of the policy list, every later request is a PUT, and no
\* container receives two PUTs.
C17_TokenThenOneGetThenPuts ==
    /\ Len(Gets) <= 1
    /\ requests # <<>> => (requests[1].method = "GET" /\ returned # <<>>)
    /\ \A k \in 2..Len(requests) : requests[k].method = "PUT"
    /\ \A j \in 1..Len(Puts), k \in 1..Len(Puts) :
          j # k => Puts[j].container # Puts[k].container

\* C17 witness: a call for a non-empty mapping has ended after its one GET.
C17_Witness ==
    /\ pc = "returned"
    /\ Requested # {}
    /\ returned # <<>>
    /\ Len(Gets) = 1

\* C18: when the fetched policy list is empty and the mapping is not,
\* update_filter_params returns the PolicyMissing value to main instead of
\* ending the run with an unhandled exception.
C18_EmptyListReportsPolicyMissing ==
    (ReconcileEnded /\ json_data = <<>> /\ Requested # {})
        => (pc = "returned" /\ upc = "line83" /\ rc = None)

\* The package name in a declaration 'package ' + name + ';'.
PackageOf(decl) == SubSeq(decl, 3, Len(decl) - 1)

RECURSIVE NormPath(_)
\* A path with every run of '/' written as one '/': the same file.
NormPath(p) ==
    IF Len(p) < 2 THEN p
    ELSE IF p[1] = "/" /\ p[2] = "/" THEN NormPath(Tail(p))
    ELSE <<p[1]>> \o NormPath(Tail(p))

\* The class named to jar and to spark-submit is the deployment declaration's
\* package followed by ".SparkJobMigratory", and the compiler is given the
\* file that was written.
ClassAndFileAgree ==
    /\ cmds["compile"] # NoCommand
          => NormPath(cmds["compile"].file) = NormPath(jobFile.path)
    /\ \A stage \in {"package", "submit"} :
          cmds[stage] # NoCommand
             => cmds[stage].class
                   = PackageOf(DeployPackageDecl) \o <<".", HarnessClass>>

SlashTerminated(path) == Len(path) >= 2 /\ Last(path) = "/"

====
